---- MODULE Spec2Model ----
(***************************************************************************)
(* Covariance transport engine of Acts (CovarianceEngine.cpp, kept as      *)
(* src/unnamed/part_000), with the surface Jacobians of Surface.ipp and    *)
(* the sigma-point corrector of CorrectedTransformationBoundToFree.hpp.    *)
(*                                                                         *)
(* Numbers are IEEE-like extended rationals <<n, d>>: d > 0 is the finite  *)
(* value n/d in lowest terms, <<1,0>> is +inf, <<-1,0>> is -inf and        *)
(* <<0,0>> is NaN.  The sign of a zero is not tracked: 1/0 is +inf.        *)
(* Matrices are functions over the source's 0-based indices.               *)
(***************************************************************************)
EXTENDS Integers, Sequences, FiniteSets, TLC

(***************************************************************************)
(* Extended rational arithmetic (the double arithmetic of the sources).    *)
(***************************************************************************)
NaN == <<0, 0>>
PInf == <<1, 0>>
Zero == <<0, 1>>
One == <<1, 1>>

AbsI(n) == IF n < 0 THEN -n ELSE n

RECURSIVE GCD(_, _)
GCD(a, b) == IF b = 0 THEN a ELSE GCD(b, a % b)

\* n/d in lowest terms, d > 0
Q(n, d) ==
  IF n = 0 THEN Zero
  ELSE LET g == GCD(AbsI(n), d) IN <<n \div g, d \div g>>

SignI(n) == IF n > 0 THEN 1 ELSE IF n < 0 THEN -1 ELSE 0

IsFinite(a) == a[2] > 0

Neg(a) == <<-a[1], a[2]>>

Mul(a, b) ==
  IF a[2] > 0 /\ b[2] > 0
  THEN IF a[1] = 0 \/ b[1] = 0 THEN Zero
       ELSE LET g1 == GCD(AbsI(a[1]), b[2])
                g2 == GCD(AbsI(b[1]), a[2])
            IN <<(a[1] \div g1) * (b[1] \div g2), (a[2] \div g2) * (b[2] \div g1)>>
  ELSE \* inf * 0 and anything with NaN are NaN, otherwise a signed inf
       <<SignI(a[1]) * SignI(b[1]), 0>>

Add(a, b) ==
  IF a[2] > 0 /\ b[2] > 0
  THEN IF a[1] = 0 THEN b
       ELSE IF b[1] = 0 THEN a
       ELSE IF a[2] = b[2] THEN Q(a[1] + b[1], a[2])
       ELSE Q(a[1] * b[2] + b[1] * a[2], a[2] * b[2])
  ELSE IF a = NaN \/ b = NaN THEN NaN
  ELSE IF a[2] = 0 /\ b[2] = 0 THEN (IF a = b THEN a ELSE NaN)
  ELSE IF a[2] = 0 THEN a ELSE b

Sub(a, b) == Add(a, Neg(b))

\* 1. / a
Inv(a) ==
  IF a[2] > 0
  THEN IF a[1] = 0 THEN PInf
       ELSE IF a[1] > 0 THEN <<a[2], a[1]>> ELSE <<-a[2], -a[1]>>
  ELSE IF a = NaN THEN NaN ELSE Zero

\* std::abs
Abs(a) == <<AbsI(a[1]), a[2]>>

\* a < b (false whenever an operand is NaN)
Less(a, b) ==
  IF a = NaN \/ b = NaN THEN FALSE
  ELSE IF a[2] > 0 /\ b[2] > 0 THEN a[1] * b[2] < b[1] * a[2]
  ELSE IF a[2] = 0 /\ b[2] = 0 THEN a[1] < b[1]
  ELSE IF a[2] = 0 THEN a[1] < 0 ELSE b[1] > 0

\* a == b of doubles (NaN equals nothing)
NumEq(a, b) == a # NaN /\ b # NaN /\ a = b

RECURSIVE ISqrtFrom(_, _)
ISqrtFrom(n, k) == IF k * k >= n THEN k ELSE ISqrtFrom(n, k + 1)

IsSquare(n) == n >= 0 /\ ISqrtFrom(n, 0) * ISqrtFrom(n, 0) = n

\* sqrt; the model only ever takes roots of squares of rationals
Sqrt(a) ==
  IF a[2] > 0
  THEN IF a[1] < 0 THEN NaN
       ELSE IF IsSquare(a[1]) /\ IsSquare(a[2])
            THEN <<ISqrtFrom(a[1], 0), ISqrtFrom(a[2], 0)>>
            ELSE CHOOSE r \in {} : TRUE
  ELSE IF a = PInf THEN PInf ELSE NaN

(***************************************************************************)
(* Dense vectors and matrices (Eigen), indexed from 0 as in the sources.   *)
(***************************************************************************)
eBoundSize == 6
eFreeSize == 8

Idx(n) == 0 .. (n - 1)

\* a vector, and a matrix, with its coefficients evaluated once
MkVec(D, F(_)) == [i \in D |-> F(i)] @@ <<>>
MkMat(R, C, F(_, _)) == [i \in R |-> [j \in C |-> F(i, j)] @@ <<>>] @@ <<>>

\* a local of the source: e under the name of the parameter of F
With(e, F(_)) == F(e)

ZeroVec(n) == MkVec(Idx(n), LAMBDA i : Zero)
ZeroMat(r, c) == MkMat(Idx(r), Idx(c), LAMBDA i, j : Zero)
IdentityMat(n) == MkMat(Idx(n), Idx(n), LAMBDA i, j : IF i = j THEN One ELSE Zero)


RECURSIVE DotFrom(_, _, _, _)
DotFrom(f, g, k, n) ==
  IF k = n THEN Zero ELSE Add(Mul(f[k], g[k]), DotFrom(f, g, k + 1, n))

\* sum over k of f[k] * g[k]
Dot(f, g) == DotFrom(f, g, 0, Cardinality(DOMAIN f))

Transpose(A) == MkMat(DOMAIN A[0], DOMAIN A, LAMBDA j, i : A[i][j])

MatMul(A, B) ==
  LET Bt == Transpose(B)
  IN MkMat(DOMAIN A, DOMAIN Bt, LAMBDA i, j : Dot(A[i], Bt[j]))

MatAdd(A, B) == MkMat(DOMAIN A, DOMAIN A[0], LAMBDA i, j : Add(A[i][j], B[i][j]))

\* column vector times row vector
Outer(u, v) == MkMat(DOMAIN u, DOMAIN v, LAMBDA i, j : Mul(u[i], v[j]))

\* A * S * A^T
Conjugate(A, S) == MatMul(MatMul(A, S), Transpose(A))

\* Eigen's A != B: some coefficient pair is not equal
MatNeq(A, B) == \E i \in DOMAIN A : \E j \in DOMAIN A[i] : ~NumEq(A[i][j], B[i][j])

VecAllFinite(v) == \A i \in DOMAIN v : IsFinite(v[i])
MatAllFinite(A) == \A i \in DOMAIN A : VecAllFinite(A[i])

VecAdd(u, v) == MkVec(DOMAIN u, LAMBDA i : Add(u[i], v[i]))
VecSub(u, v) == MkVec(DOMAIN u, LAMBDA i : Sub(u[i], v[i]))
VecScale(a, v) == MkVec(DOMAIN v, LAMBDA i : Mul(a, v[i]))
MatVec(A, v) == MkVec(DOMAIN A, LAMBDA i : Dot(A[i], v))

\* A with the coefficients named in W (a function on <<row, col>> pairs) assigned
Fill(A, W) ==
  MkMat(DOMAIN A, DOMAIN A[0],
        LAMBDA i, j : IF <<i, j>> \in DOMAIN W THEN W[<<i, j>>] ELSE A[i][j])

(***************************************************************************)
(* Parameter indices (Acts/Definitions/TrackParametrization.hpp).          *)
(***************************************************************************)
eBoundLoc0 == 0
eBoundLoc1 == 1
eBoundPhi == 2
eBoundTheta == 3
eBoundQOverP == 4
eBoundTime == 5

eFreePos0 == 0
eFreePos1 == 1
eFreePos2 == 2
eFreeTime == 3
eFreeDir0 == 4
eFreeDir1 == 5
eFreeDir2 == 6
eFreeQOverP == 7

\* freeParameters.segment<3>(start)
Segment3(v, start) == MkVec(Idx(3), LAMBDA i : v[start + i])

(***************************************************************************)
(* Surface (Surface.ipp).  A surface is its placement: a centre and the    *)
(* 3x3 rotation block of its transform.                                    *)
(***************************************************************************)
\* Surface::referenceFrame: the rotation block of the transform
referenceFrame(surface) == surface.rotation

\* Surface::initJacobianToLocal: fills the free-to-bound Jacobian
initJacobianToLocal(surface, jacobian, position, direction) ==
  LET x == direction[0]
      y == direction[1]
      z == direction[2]
      cosTheta == z
      sinTheta == Sqrt(Add(Mul(x, x), Mul(y, y)))
      invSinTheta == Inv(sinTheta)
      cosPhi == Mul(x, invSinTheta)
      sinPhi == Mul(y, invSinTheta)
      rframeT == Transpose(referenceFrame(surface))
  IN Fill(jacobian,
       ([p \in (0 .. 1) \X (0 .. 2) |-> rframeT[p[1]][p[2]]] @@ <<>>)
       @@ (<<eBoundTime, 3>> :> One)
       @@ (<<eBoundPhi, 4>> :> Mul(Neg(sinPhi), invSinTheta))
       @@ (<<eBoundPhi, 5>> :> Mul(cosPhi, invSinTheta))
       @@ (<<eBoundTheta, 4>> :> Mul(cosPhi, cosTheta))
       @@ (<<eBoundTheta, 5>> :> Mul(sinPhi, cosTheta))
       @@ (<<eBoundTheta, 6>> :> Neg(sinTheta))
       @@ (<<eBoundQOverP, 7>> :> One))

\* Surface::initJacobianToGlobal: fills the bound-to-free Jacobian
initJacobianToGlobal(surface, jacobian, position, direction) ==
  LET x == direction[0]
      y == direction[1]
      z == direction[2]
      cos_theta == z
      sin_theta == Sqrt(Add(Mul(x, x), Mul(y, y)))
      inv_sin_theta == Inv(sin_theta)
      cos_phi == Mul(x, inv_sin_theta)
      sin_phi == Mul(y, inv_sin_theta)
      rframe == referenceFrame(surface)
  IN Fill(jacobian,
       ([p \in (0 .. 2) \X (0 .. 1) |-> rframe[p[1]][p[2]]] @@ <<>>)
       @@ (<<3, eBoundTime>> :> One)
       @@ (<<4, eBoundPhi>> :> Mul(Neg(sin_theta), sin_phi))
       @@ (<<4, eBoundTheta>> :> Mul(cos_theta, cos_phi))
       @@ (<<5, eBoundPhi>> :> Mul(sin_theta, cos_phi))
       @@ (<<5, eBoundTheta>> :> Mul(cos_theta, sin_phi))
       @@ (<<6, eBoundTheta>> :> Neg(sin_theta))
       @@ (<<7, eBoundQOverP>> :> One))

\* the normalization factor without its sign
freeToPathDerivativeUnsigned(surface, position, direction) ==
  LET rframe == referenceFrame(surface)
      measZAxis == MkVec(Idx(3), LAMBDA i : rframe[i][2])
      norm == Inv(Dot(measZAxis, direction))
  IN MkVec(Idx(eFreeSize), LAMBDA j : IF j < 3 THEN Mul(norm, measZAxis[j]) ELSE Zero)

\* Surface::freeToPathDerivative: -1/(n.d) * n in the position slots
freeToPathDerivative(surface, position, direction) ==
  LET rframe == referenceFrame(surface)
      measZAxis == MkVec(Idx(3), LAMBDA i : rframe[i][2])
      norm == Mul(Neg(One), Inv(Dot(measZAxis, direction)))
  IN MkVec(Idx(eFreeSize), LAMBDA j : IF j < 3 THEN Mul(norm, measZAxis[j]) ELSE Zero)

\* surface.freeToBoundJacobian(gctx, freeParameters)
freeToBoundJacobian(surface, freeParameters) ==
  initJacobianToLocal(surface, ZeroMat(eBoundSize, eFreeSize),
                      Segment3(freeParameters, eFreePos0),
                      Segment3(freeParameters, eFreeDir0))

\* surface.boundToFreeJacobian(gctx, boundParameters), for the bound parameters of
\* the free vector freeParameters
boundToFreeJacobianAt(surface, freeParameters) ==
  initJacobianToGlobal(surface, ZeroMat(eFreeSize, eBoundSize),
                       Segment3(freeParameters, eFreePos0),
                       Segment3(freeParameters, eFreeDir0))

\* surface.globalToLocal: the position in the local frame; it fails when the
\* position is not on the surface
localCartesian(surface, position) ==
  MatVec(Transpose(surface.rotation), VecSub(position, surface.center))

globalToLocalOk(surface, position, direction) ==
  NumEq(localCartesian(surface, position)[2], Zero)

(***************************************************************************)
(* Parameter transforms.  An angle of a bound vector is kept as the pair   *)
(* of its cosine and sine, <<cos, sin>>, which names it exactly.           *)
(***************************************************************************)
\* detail::transformFreeToBoundParameters: ok
transformFreeToBoundOk(freeParameters, surface) ==
  globalToLocalOk(surface, Segment3(freeParameters, eFreePos0),
                  Segment3(freeParameters, eFreeDir0))

\* detail::transformFreeToBoundParameters: the value of a successful result
transformFreeToBoundParameters(freeParameters, surface) ==
  LET loc == localCartesian(surface, Segment3(freeParameters, eFreePos0))
      d == Segment3(freeParameters, eFreeDir0)
      sinTheta == Sqrt(Add(Mul(d[0], d[0]), Mul(d[1], d[1])))
      phi == IF sinTheta = Zero THEN <<One, Zero>>
             ELSE <<Mul(d[0], Inv(sinTheta)), Mul(d[1], Inv(sinTheta))>>
      theta == <<d[2], sinTheta>>
  IN (eBoundLoc0 :> loc[0]) @@ (eBoundLoc1 :> loc[1]) @@ (eBoundPhi :> phi)
     @@ (eBoundTheta :> theta) @@ (eBoundQOverP :> freeParameters[eFreeQOverP])
     @@ (eBoundTime :> freeParameters[eFreeTime])

\* detail::transformBoundToFreeParameters
transformBoundToFreeParameters(surface, boundParams) ==
  LET pos == VecAdd(surface.center,
                    MatVec(surface.rotation,
                           (0 :> boundParams[eBoundLoc0]) @@ (1 :> boundParams[eBoundLoc1])
                           @@ (2 :> Zero)))
      cosPhi == boundParams[eBoundPhi][1]
      sinPhi == boundParams[eBoundPhi][2]
      cosTheta == boundParams[eBoundTheta][1]
      sinTheta == boundParams[eBoundTheta][2]
  IN (eFreePos0 :> pos[0]) @@ (eFreePos1 :> pos[1]) @@ (eFreePos2 :> pos[2])
     @@ (eFreeTime :> boundParams[eBoundTime])
     @@ (eFreeDir0 :> Mul(cosPhi, sinTheta)) @@ (eFreeDir1 :> Mul(sinPhi, sinTheta))
     @@ (eFreeDir2 :> cosTheta) @@ (eFreeQOverP :> boundParams[eBoundQOverP])

\* the standard branch for every direction off the z axis, whatever the tolerance
freeToCurvilinearJacobianUntilPole(direction, tolerance) ==
  LET x == direction[0]
      y == direction[1]
      z == direction[2]
      cosTheta == z
      sinTheta == Sqrt(Add(Mul(x, x), Mul(y, y)))
      invSinTheta == Inv(sinTheta)
      cosPhi == Mul(x, invSinTheta)
      sinPhi == Mul(y, invSinTheta)
      c == Sqrt(Add(Mul(y, y), Mul(z, z)))
      invC == Inv(c)
      position ==
        IF Less(Abs(cosTheta), One)
        THEN (<<0, 0>> :> Neg(sinPhi))
             @@ (<<0, 1>> :> cosPhi)
             @@ (<<1, 0>> :> Mul(Neg(cosPhi), cosTheta))
             @@ (<<1, 1>> :> Mul(Neg(sinPhi), cosTheta))
             @@ (<<1, 2>> :> sinTheta)
        ELSE (<<0, 1>> :> Mul(Neg(z), invC))
             @@ (<<0, 2>> :> Mul(y, invC))
             @@ (<<1, 0>> :> c)
             @@ (<<1, 1>> :> Mul(Mul(Neg(x), y), invC))
             @@ (<<1, 2>> :> Mul(Mul(Neg(x), z), invC))
  IN Fill(ZeroMat(eBoundSize, eFreeSize),
       position
       @@ (<<5, 3>> :> One)
       @@ (<<2, 4>> :> Mul(Neg(sinPhi), invSinTheta))
       @@ (<<2, 5>> :> Mul(cosPhi, invSinTheta))
       @@ (<<3, 4>> :> Mul(cosPhi, cosTheta))
       @@ (<<3, 5>> :> Mul(sinPhi, cosTheta))
       @@ (<<3, 6>> :> Neg(sinTheta))
       @@ (<<4, 7>> :> One))

(***************************************************************************)
(* CovarianceEngine.cpp: the anonymous-namespace helpers.                  *)
(***************************************************************************)
\* freeToCurvilinearJacobian; tolerance is s_curvilinearProjTolerance
freeToCurvilinearJacobian(direction, tolerance) ==
  LET x == direction[0]
      y == direction[1]
      z == direction[2]
      cosTheta == z
      sinTheta == Sqrt(Add(Mul(x, x), Mul(y, y)))
      invSinTheta == Inv(sinTheta)
      cosPhi == Mul(x, invSinTheta)
      sinPhi == Mul(y, invSinTheta)
      c == Sqrt(Add(Mul(y, y), Mul(z, z)))
      invC == Inv(c)
      position ==
        IF Less(Abs(cosTheta), tolerance)
        THEN (<<0, 0>> :> Neg(sinPhi))
             @@ (<<0, 1>> :> cosPhi)
             @@ (<<1, 0>> :> Mul(Neg(cosPhi), cosTheta))
             @@ (<<1, 1>> :> Mul(Neg(sinPhi), cosTheta))
             @@ (<<1, 2>> :> sinTheta)
        ELSE (<<0, 1>> :> Mul(Neg(z), invC))
             @@ (<<0, 2>> :> Mul(y, invC))
             @@ (<<1, 0>> :> c)
             @@ (<<1, 1>> :> Mul(Mul(Neg(x), y), invC))
             @@ (<<1, 2>> :> Mul(Mul(Neg(x), z), invC))
  IN Fill(ZeroMat(eBoundSize, eFreeSize),
       position
       @@ (<<5, 3>> :> One)
       @@ (<<2, 4>> :> Mul(Neg(sinPhi), invSinTheta))
       @@ (<<2, 5>> :> Mul(cosPhi, invSinTheta))
       @@ (<<3, 4>> :> Mul(cosPhi, cosTheta))
       @@ (<<3, 5>> :> Mul(sinPhi, cosTheta))
       @@ (<<3, 6>> :> Neg(sinTheta))
       @@ (<<4, 7>> :> One))

\* the chain without the path-derivative term
boundToBoundJacobianNoPath(freeParameters, boundToFreeJac, freeTransportJacobian, freeDerivatives, surface) ==
  LET freeToBoundJac == freeToBoundJacobian(surface, freeParameters)
      startBoundToFinalFreeJacobian == MatMul(freeTransportJacobian, boundToFreeJac)
  IN <<MatMul(freeToBoundJac, startBoundToFinalFreeJacobian),
       startBoundToFinalFreeJacobian>>

\* boundToBoundJacobian: <<fullTransportJacobian, startBoundToFinalFreeJacobian>>
boundToBoundJacobian(freeParameters, boundToFreeJac, freeTransportJacobian, freeDerivatives, surface) ==
  LET freeToPath == freeToPathDerivative(surface, Segment3(freeParameters, eFreePos0),
                                         Segment3(freeParameters, eFreeDir0))
      freeToBoundJac == freeToBoundJacobian(surface, freeParameters)
      startBoundToFinalFreeJacobian ==
        MatMul(MatMul(MatAdd(IdentityMat(eFreeSize), Outer(freeDerivatives, freeToPath)),
                      freeTransportJacobian),
               boundToFreeJac)
  IN <<MatMul(freeToBoundJac, startBoundToFinalFreeJacobian),
       startBoundToFinalFreeJacobian>>

\* boundToCurvilinearJacobian: the fullTransportJacobian
boundToCurvilinearJacobian(direction, boundToFreeJac, freeTransportJacobian, freeDerivatives, tolerance) ==
  LET freeToPath == MkVec(Idx(eFreeSize),
                          LAMBDA j : IF j < 3 THEN Mul(Neg(One), direction[j]) ELSE Zero)
      freeToBoundJac == freeToCurvilinearJacobian(direction, tolerance)
  IN MatMul(MatMul(MatMul(freeToBoundJac,
                          MatAdd(IdentityMat(eFreeSize),
                                 Outer(freeDerivatives, freeToPath))),
                   freeTransportJacobian),
            boundToFreeJac)

\* reinitializeJacobians(geoContext, ..., freeParameters, surface).  The record
\* holds the three references after the call, the Result<void> returned (ok),
\* and whether the statements after the projection check ran although the
\* projection had failed (pastFailedProjection).
reinitializeJacobiansSurface(freeTransportJacobian, freeToPathDerivatives, boundToFreeJac, freeParameters, surface) ==
  LET lpOk == globalToLocalOk(surface, Segment3(freeParameters, eFreePos0),
                              Segment3(freeParameters, eFreeDir0))
      bpOk == transformFreeToBoundOk(freeParameters, surface)
  IN [freeTransportJacobian |-> IdentityMat(eFreeSize),
      freeToPathDerivatives |-> ZeroVec(eFreeSize),
      boundToFreeJacobian |->
        IF bpOk THEN boundToFreeJacobianAt(surface, freeParameters)
        ELSE boundToFreeJac,
      fatalLogged |-> ~lpOk,
      pastFailedProjection |-> ~lpOk,
      ok |-> bpOk]

\* the reset without boundToFreeJacobian = BoundToFreeMatrix::Zero()
reinitializeJacobiansCurvilinearKept(freeTransportJacobian, freeToPathDerivatives, boundToFreeJac, direction) ==
  LET x == direction[0]
      y == direction[1]
      z == direction[2]
      cosTheta == z
      sinTheta == Sqrt(Add(Mul(x, x), Mul(y, y)))
      invSinTheta == Inv(sinTheta)
      cosPhi == Mul(x, invSinTheta)
      sinPhi == Mul(y, invSinTheta)
  IN [freeTransportJacobian |-> IdentityMat(eFreeSize),
      freeToPathDerivatives |-> ZeroVec(eFreeSize),
      boundToFreeJacobian |->
        Fill(boundToFreeJac,
          (<<eFreePos0, eBoundLoc0>> :> Neg(sinPhi))
          @@ (<<eFreePos0, eBoundLoc1>> :> Mul(Neg(cosPhi), cosTheta))
          @@ (<<eFreePos1, eBoundLoc0>> :> cosPhi)
          @@ (<<eFreePos1, eBoundLoc1>> :> Mul(Neg(sinPhi), cosTheta))
          @@ (<<eFreePos2, eBoundLoc1>> :> sinTheta)
          @@ (<<eFreeTime, eBoundTime>> :> One)
          @@ (<<eFreeDir0, eBoundPhi>> :> Mul(Neg(sinTheta), sinPhi))
          @@ (<<eFreeDir0, eBoundTheta>> :> Mul(cosTheta, cosPhi))
          @@ (<<eFreeDir1, eBoundPhi>> :> Mul(sinTheta, cosPhi))
          @@ (<<eFreeDir1, eBoundTheta>> :> Mul(cosTheta, sinPhi))
          @@ (<<eFreeDir2, eBoundTheta>> :> Neg(sinTheta))
          @@ (<<eFreeQOverP, eBoundQOverP>> :> One))]

\* reinitializeJacobians(..., direction): the curvilinear overload
reinitializeJacobiansCurvilinear(freeTransportJacobian, freeToPathDerivatives, boundToFreeJac, direction) ==
  LET x == direction[0]
      y == direction[1]
      z == direction[2]
      cosTheta == z
      sinTheta == Sqrt(Add(Mul(x, x), Mul(y, y)))
      invSinTheta == Inv(sinTheta)
      cosPhi == Mul(x, invSinTheta)
      sinPhi == Mul(y, invSinTheta)
  IN [freeTransportJacobian |-> IdentityMat(eFreeSize),
      freeToPathDerivatives |-> ZeroVec(eFreeSize),
      boundToFreeJacobian |->
        Fill(ZeroMat(eFreeSize, eBoundSize),
          (<<eFreePos0, eBoundLoc0>> :> Neg(sinPhi))
          @@ (<<eFreePos0, eBoundLoc1>> :> Mul(Neg(cosPhi), cosTheta))
          @@ (<<eFreePos1, eBoundLoc0>> :> cosPhi)
          @@ (<<eFreePos1, eBoundLoc1>> :> Mul(Neg(sinPhi), cosTheta))
          @@ (<<eFreePos2, eBoundLoc1>> :> sinTheta)
          @@ (<<eFreeTime, eBoundTime>> :> One)
          @@ (<<eFreeDir0, eBoundPhi>> :> Mul(Neg(sinTheta), sinPhi))
          @@ (<<eFreeDir0, eBoundTheta>> :> Mul(cosTheta, cosPhi))
          @@ (<<eFreeDir1, eBoundPhi>> :> Mul(sinTheta, cosPhi))
          @@ (<<eFreeDir1, eBoundTheta>> :> Mul(cosTheta, sinPhi))
          @@ (<<eFreeDir2, eBoundTheta>> :> Neg(sinTheta))
          @@ (<<eFreeQOverP, eBoundQOverP>> :> One))]

(***************************************************************************)
(* Sigma-point corrector (CorrectedTransformationBoundToFree.hpp).         *)
(* The matrix square root is taken of diagonal covariances, and an angle   *)
(* of a sigma point is shifted by zero only: the covariances of the model  *)
(* carry no angular variance.                                              *)
(***************************************************************************)
kappa == 4

IsDiagonal(A) ==
  \A i \in DOMAIN A : \A j \in DOMAIN A[i] : i # j => A[i][j] = Zero

\* the square root with a unit floor on loc0 under a vanishing covariance
covSqrtOfFloored(cov) ==
  IF IsDiagonal(cov)
  THEN MkMat(DOMAIN cov, DOMAIN cov[0],
             LAMBDA i, j : IF i = j
                           THEN IF i = 0 /\ cov[0][0] = Zero THEN One
                                ELSE Sqrt(Abs(cov[i][i]))
                           ELSE Zero)
  ELSE CHOOSE r \in {} : TRUE

\* U * sqrt(S) * U^T of the singular value decomposition
covSqrtOf(cov) ==
  IF IsDiagonal(cov)
  THEN MkMat(DOMAIN cov, DOMAIN cov[0],
             LAMBDA i, j : IF i = j THEN Sqrt(Abs(cov[i][i])) ELSE Zero)
  ELSE CHOOSE r \in {} : TRUE

Column(A, j) == MkVec(DOMAIN A, LAMBDA i : A[i][j])

\* an angle <<cos, sin>> plus delta
AngleShift(angle, delta) ==
  IF delta = Zero THEN angle ELSE CHOOSE r \in {} : TRUE

\* boundParams + delta, delta a vector of numbers
BoundPlus(boundParams, delta) ==
  MkVec(DOMAIN boundParams,
        LAMBDA i : IF i \in {eBoundPhi, eBoundTheta}
                   THEN AngleShift(boundParams[i], delta[i])
                   ELSE Add(boundParams[i], delta[i]))

\* the weight of the baseline parameters, (kappa - eBoundSize) / kappa, for kappa = k
meanWeight(k) == Mul(Sub(<<k, 1>>, <<eBoundSize, 1>>), Inv(<<k, 1>>))

\* one over kappa in the place of 0.5 / kappa
shiftedWeightWhole(k) == Inv(<<k, 1>>)

\* the weight of a shifted parameter vector, 0.5 / kappa, for kappa = k
shiftedWeight(k) == Mul(<<1, 2>>, Inv(<<k, 1>>))

RECURSIVE shiftedBoundParams(_, _, _)
\* the pairs pushed by the loop over i of the shifted parameters
shiftedBoundParams(boundParams, covSqrt, i) ==
  IF i = eBoundSize THEN <<>>
  ELSE LET kappaSqrt == Sqrt(<<kappa, 1>>)
           delta == VecScale(kappaSqrt, Column(covSqrt, i))
           w == shiftedWeight(kappa)
       IN <<<<BoundPlus(boundParams, delta), w>>,
            <<BoundPlus(boundParams, VecScale(Neg(One), delta)), w>>>>
          \o shiftedBoundParams(boundParams, covSqrt, i + 1)

\* sampledBoundParams: the <<parameters, weight>> pairs
sampledBoundParamsOf(boundParams, boundCovariance) ==
  <<<<boundParams, meanWeight(kappa)>>>>
  \o shiftedBoundParams(boundParams, covSqrtOf(boundCovariance), 0)

RECURSIVE weightedSum(_, _, _)
\* sum over k > i of weight[k] * vec[k], added in the order of the loop
weightedSum(vecs, weights, n) ==
  IF n = 0 THEN ZeroVec(Cardinality(DOMAIN vecs[1]))
  ELSE VecAdd(weightedSum(vecs, weights, n - 1), VecScale(weights[n], vecs[n]))

RECURSIVE weightedCovShifted(_, _, _, _)
\* the sum with the deviation of the sample before on the right side
weightedCovShifted(vecs, weights, mean, n) ==
  IF n = 0
  THEN ZeroMat(Cardinality(DOMAIN mean), Cardinality(DOMAIN mean))
  ELSE LET sigma == VecSub(vecs[n], mean)
           before == VecSub(vecs[IF n = 1 THEN 1 ELSE n - 1], mean)
       IN MatAdd(weightedCovShifted(vecs, weights, mean, n - 1),
                 Outer(VecScale(weights[n], sigma), before))

RECURSIVE weightedCov(_, _, _, _)
\* sum of weight * sigma * sigma^T over the first n samples
weightedCov(vecs, weights, mean, n) ==
  IF n = 0
  THEN ZeroMat(Cardinality(DOMAIN mean), Cardinality(DOMAIN mean))
  ELSE LET sigma == VecSub(vecs[n], mean)
       IN MatAdd(weightedCov(vecs, weights, mean, n - 1),
                 Outer(VecScale(weights[n], sigma), sigma))

\* the check that ends the call with std::nullopt
batchDiscardedInverted(transformedFreeParams) == Len(transformedFreeParams) # 0

batchDiscarded(transformedFreeParams) == Len(transformedFreeParams) = 0

\* CorrectedBoundToFreeTransformer::operator(): an optional pair (has_value, first,
\* second), with the sizes of the two sample vectors
CorrectedBoundToFreeTransformer(boundParams, boundCovariance, surface) ==
  With(2 * eBoundSize + 1, LAMBDA sampleSize :
  With(sampledBoundParamsOf(boundParams, boundCovariance), LAMBDA sampledBoundParams :
  With(MkVec(DOMAIN sampledBoundParams, LAMBDA k : sampledBoundParams[k][2]),
       LAMBDA weights :
  With(MkVec(DOMAIN sampledBoundParams,
             LAMBDA k : transformBoundToFreeParameters(surface,
                                                       sampledBoundParams[k][1])),
       LAMBDA transformedFreeParams :
  With(weightedSum(transformedFreeParams, weights, Len(transformedFreeParams)),
       LAMBDA fpMean :
    IF batchDiscarded(transformedFreeParams)
    THEN [has_value |-> FALSE, first |-> ZeroVec(eFreeSize),
          second |-> ZeroMat(eFreeSize, eFreeSize),
          nSampled |-> Len(sampledBoundParams), nTransformed |-> 0]
    ELSE [has_value |-> TRUE, first |-> fpMean,
          second |-> weightedCov(transformedFreeParams, weights, fpMean, sampleSize),
          nSampled |-> Len(sampledBoundParams),
          nTransformed |-> Len(transformedFreeParams)])))))

(***************************************************************************)
(* CorrectedFreeToBoundTransformer (CorrectedTransformationFreeToBound.hpp *)
(* is not among the sources): the corrector of the specification, section  *)
(* 4.4, for the free-to-bound direction.                                   *)
(***************************************************************************)
RECURSIVE shiftedFreeParams(_, _, _)
shiftedFreeParams(freeParams, covSqrt, i) ==
  IF i = eFreeSize THEN <<>>
  ELSE LET delta == VecScale(Sqrt(<<kappa, 1>>), Column(covSqrt, i))
           w == Mul(<<1, 2>>, Inv(<<kappa, 1>>))
       IN <<<<VecAdd(freeParams, delta), w>>, <<VecSub(freeParams, delta), w>>>>
          \o shiftedFreeParams(freeParams, covSqrt, i + 1)

sampledFreeParamsOf(freeParams, freeCovariance) ==
  <<<<freeParams, Mul(Sub(<<kappa, 1>>, <<eFreeSize, 1>>), Inv(<<kappa, 1>>))>>>>
  \o shiftedFreeParams(freeParams, covSqrtOf(freeCovariance), 0)

\* a bound vector as numbers: an angle as its distance from the angle of ref
BoundMinus(boundParams, ref) ==
  MkVec(DOMAIN boundParams,
        LAMBDA i : IF i \in {eBoundPhi, eBoundTheta}
                   THEN (IF boundParams[i] = ref[i] THEN Zero ELSE CHOOSE r \in {} : TRUE)
                   ELSE Sub(boundParams[i], ref[i]))

CorrectedFreeToBoundTransformer(freeParams, freeCovariance, freeDerivatives, surface) ==
  With(sampledFreeParamsOf(freeParams, freeCovariance), LAMBDA sampled :
  With(MkVec(DOMAIN sampled, LAMBDA k : sampled[k][2]), LAMBDA weights :
  With(transformFreeToBoundParameters(freeParams, surface), LAMBDA nominal :
    IF \E k \in DOMAIN sampled : ~transformFreeToBoundOk(sampled[k][1], surface)
    THEN [has_value |-> FALSE, first |-> nominal,
          second |-> ZeroMat(eBoundSize, eBoundSize)]
    ELSE \* the samples relative to the nominal bound vector
         With(MkVec(DOMAIN sampled,
                    LAMBDA k : BoundMinus(
                                 transformFreeToBoundParameters(sampled[k][1], surface),
                                 nominal)),
              LAMBDA rel :
         With(weightedSum(rel, weights, Len(rel)), LAMBDA relMean :
           [has_value |-> TRUE,
            first |-> BoundPlus(nominal, relMean),
            second |-> weightedCov(rel, weights, relMean, Len(rel))])))))

(***************************************************************************)
(* CovarianceEngine.cpp: namespace detail.  The step state st is the       *)
(* record of the caller's objects passed by reference: boundMatrix,        *)
(* freeMatrix, jacobian, transportJacobian, derivatives and                *)
(* boundToFreeJacobian.  A call ends "ok" (a value is returned), "error"   *)
(* (an error result is returned) or "exception" (Result::value() of a      *)
(* failed result, or std::optional::value() of an empty optional, throws). *)
(***************************************************************************)
NoCorrection ==
  [has_value |-> FALSE, first |-> ZeroVec(eFreeSize),
   second |-> ZeroMat(eFreeSize, eFreeSize), nSampled |-> 0, nTransformed |-> 0]

NoReinit ==
  [called |-> FALSE, ok |-> TRUE, fatalLogged |-> FALSE,
   pastFailedProjection |-> FALSE, resultChecked |-> FALSE]

\* transportCovarianceToBound.  The record holds the step state after the call,
\* whether boundParameters.value() was read of a failed result (and threw), the
\* optional returned by the corrector and what became of reinitializeJacobians.
transportCovarianceToBound(st, freeParameters, surface) ==
  With(boundToBoundJacobian(freeParameters, st.boundToFreeJacobian,
                            st.transportJacobian, st.derivatives, surface),
       LAMBDA jacs :
    IF ~transformFreeToBoundOk(freeParameters, surface)
    THEN \* boundParameters.value() of the failed result
         [st |-> [st EXCEPT !.jacobian = jacs[1]],
          threw |-> TRUE, readFailedResult |-> TRUE,
          corrected |-> NoCorrection, reinit |-> NoReinit]
    ELSE
  With(CorrectedBoundToFreeTransformer(
         transformFreeToBoundParameters(freeParameters, surface), st.boundMatrix,
         surface),
       LAMBDA correctedRes :
  With(freeToPathDerivative(surface, Segment3(freeParameters, eFreePos0),
                            Segment3(freeParameters, eFreeDir0)),
       LAMBDA freeToPath :
  With(MatMul(MatAdd(IdentityMat(eFreeSize), Outer(st.derivatives, freeToPath)),
              st.transportJacobian),
       LAMBDA startFreeToFinalFreeJacobian :
  With(Conjugate(startFreeToFinalFreeJacobian,
                 IF correctedRes.has_value THEN correctedRes.second
                 ELSE st.freeMatrix),
       LAMBDA freeCovariance :
  With(reinitializeJacobiansSurface(st.transportJacobian, st.derivatives,
                                    st.boundToFreeJacobian, freeParameters, surface),
       LAMBDA reinit :
    [st |-> [boundMatrix |-> Conjugate(freeToBoundJacobian(surface, freeParameters),
                                       freeCovariance),
             freeMatrix |-> freeCovariance,
             jacobian |-> jacs[1],
             transportJacobian |-> reinit.freeTransportJacobian,
             derivatives |-> reinit.freeToPathDerivatives,
             boundToFreeJacobian |-> reinit.boundToFreeJacobian],
     threw |-> FALSE, readFailedResult |-> FALSE,
     corrected |-> correctedRes,
     reinit |-> [called |-> TRUE, ok |-> reinit.ok,
                 fatalLogged |-> reinit.fatalLogged,
                 pastFailedProjection |-> reinit.pastFailedProjection,
                 resultChecked |-> FALSE]]))))))

\* transportCovarianceToCurvilinear
transportCovarianceToCurvilinear(st, direction, tolerance) ==
  With(boundToCurvilinearJacobian(direction, st.boundToFreeJacobian,
                                  st.transportJacobian, st.derivatives, tolerance),
       LAMBDA fullTransportJacobian :
  With(reinitializeJacobiansCurvilinear(st.transportJacobian, st.derivatives,
                                        st.boundToFreeJacobian, direction),
       LAMBDA reinit :
    [boundMatrix |-> Conjugate(fullTransportJacobian, st.boundMatrix),
     freeMatrix |-> st.freeMatrix,
     jacobian |-> fullTransportJacobian,
     transportJacobian |-> reinit.freeTransportJacobian,
     derivatives |-> reinit.freeToPathDerivatives,
     boundToFreeJacobian |-> reinit.boundToFreeJacobian]))

\* BoundVector::Zero(): the angle zero has cosine one
ZeroBoundVector ==
  MkVec(Idx(eBoundSize),
        LAMBDA i : IF i \in {eBoundPhi, eBoundTheta} THEN <<One, Zero>> ELSE Zero)

\* correctedBp and correctedBv of boundState: zero unless the corrector has a value
correctedOutputsUnchecked(correctedRes) == <<correctedRes.first, correctedRes.second>>

correctedOutputs(correctedRes) ==
  IF correctedRes.has_value
  THEN <<correctedRes.first, correctedRes.second>>
  ELSE <<ZeroBoundVector, ZeroMat(eBoundSize, eBoundSize)>>

\* the skipped transport with the Jacobian set to the identity all the same
NoTransportIdentity(st) ==
  [st |-> [st EXCEPT !.jacobian = IdentityMat(eBoundSize)],
   threw |-> FALSE, readFailedResult |-> FALSE,
   corrected |-> NoCorrection, reinit |-> NoReinit]

\* boundState with covTransport false: the transport is skipped
NoTransport(st) ==
  [st |-> st, threw |-> FALSE, readFailedResult |-> FALSE,
   corrected |-> NoCorrection, reinit |-> NoReinit]

\* the optional covariance of the returned parameters
boundCovOf(boundMatrix) ==
  IF MatNeq(boundMatrix, ZeroMat(eBoundSize, eBoundSize))
  THEN [has_value |-> TRUE, value |-> boundMatrix]
  ELSE [has_value |-> FALSE, value |-> ZeroMat(eBoundSize, eBoundSize)]

NoBoundState ==
  [boundCov |-> [has_value |-> FALSE, value |-> ZeroMat(eBoundSize, eBoundSize)],
   bv |-> ZeroBoundVector,
   jacobian |-> ZeroMat(eBoundSize, eBoundSize),
   accumulatedPath |-> 0,
   correctedBp |-> ZeroBoundVector,
   correctedBv |-> ZeroMat(eBoundSize, eBoundSize)]

\* boundState.  The record holds how the call ended, the step state it left, the
\* tuple it returned and what it ran on the way.
boundState(st, parameters, covTransport, accumulatedPath, surface, nonlinearityCorrection) ==
  With(IF covTransport
       THEN transportCovarianceToBound([st EXCEPT !.jacobian = IdentityMat(eBoundSize)],
                                       parameters, surface)
       ELSE NoTransport(st),
       LAMBDA t :
  With([transport |-> t, correctorRan |-> FALSE, correctorHasValue |-> FALSE,
        readEmptyOptional |-> FALSE],
       LAMBDA trace :
    IF t.threw
    THEN [outcome |-> "exception", st |-> t.st, value |-> NoBoundState, trace |-> trace]
    ELSE IF ~transformFreeToBoundOk(parameters, surface)
    THEN [outcome |-> "error", st |-> t.st, value |-> NoBoundState, trace |-> trace]
    ELSE
  With(boundCovOf(t.st.boundMatrix), LAMBDA boundCov :
    IF ~boundCov.has_value
    THEN \* boundCov.value() of the empty optional
         [outcome |-> "exception", st |-> t.st, value |-> NoBoundState,
          trace |-> [trace EXCEPT !.readEmptyOptional = TRUE]]
    ELSE
  With(CorrectedFreeToBoundTransformer(parameters, t.st.freeMatrix, t.st.derivatives,
                                       surface),
       LAMBDA correctedRes :
  With(correctedOutputs(correctedRes), LAMBDA corrected :
    [outcome |-> "ok", st |-> t.st,
     value |-> [boundCov |-> boundCov,
                bv |-> transformFreeToBoundParameters(parameters, surface),
                jacobian |-> t.st.jacobian,
                accumulatedPath |-> accumulatedPath,
                correctedBp |-> corrected[1],
                correctedBv |-> corrected[2]],
     trace |-> [trace EXCEPT !.correctorRan = TRUE,
                             !.correctorHasValue = correctedRes.has_value]])))))

\* curvilinearState
curvilinearState(st, parameters, covTransport, accumulatedPath, tolerance) ==
  With(IF covTransport
       THEN transportCovarianceToCurvilinear(
              [st EXCEPT !.jacobian = IdentityMat(eBoundSize)],
              Segment3(parameters, eFreeDir0), tolerance)
       ELSE st,
       LAMBDA st1 :
    [outcome |-> "ok", st |-> st1,
     value |-> [boundCov |-> boundCovOf(st1.boundMatrix),
                pos4 |-> MkVec(Idx(4), LAMBDA i : parameters[i]),
                direction |-> Segment3(parameters, eFreeDir0),
                qOverP |-> parameters[eFreeQOverP],
                jacobian |-> st1.jacobian,
                accumulatedPath |-> accumulatedPath]])

(***************************************************************************)
(* The inputs of the model.                                                *)
(***************************************************************************)
Vec3(a, b, c) == (0 :> a) @@ (1 :> b) @@ (2 :> c)

Diag(n, d) == MkMat(Idx(n), Idx(n), LAMBDA i, j : IF i = j THEN d[i] ELSE Zero)

\* s_curvilinearProjTolerance: its value is set outside the sources; the model
\* runs with a tolerance of 9/10 and with one of 199999/200000
Tolerances == {<<9, 10>>, <<199999, 200000>>}

\* unit directions: one well inside the standard branch, one with |cos(theta)|
\* between the two tolerances, and the two poles
DirStandard == Vec3(<<12, 25>>, <<9, 25>>, <<4, 5>>)
DirSteep == Vec3(<<5, 13>>, Zero, <<12, 13>>)
DirPolePlus == Vec3(Zero, Zero, One)
DirPoleMinus == Vec3(Zero, Zero, <<-1, 1>>)
\* as steep as DirSteep, in the y-z plane
DirSteepY == Vec3(Zero, <<5, 13>>, <<12, 13>>)
Directions == {DirStandard, DirSteep, DirSteepY, DirPolePlus, DirPoleMinus}

\* plane surfaces through the origin: normal along z, and normal along x
SurfaceXY == [center |-> Vec3(Zero, Zero, Zero), rotation |-> IdentityMat(3)]
SurfaceYZ ==
  [center |-> Vec3(Zero, Zero, Zero),
   rotation |-> (0 :> Vec3(Zero, Zero, One)) @@ (1 :> Vec3(One, Zero, Zero))
                @@ (2 :> Vec3(Zero, One, Zero))]
Surfaces == {SurfaceXY, SurfaceYZ}

\* the surface the accumulated step started from: normal along y, local x along z
SurfaceZX ==
  [center |-> Vec3(Zero, Zero, Zero),
   rotation |-> (0 :> Vec3(Zero, One, Zero)) @@ (1 :> Vec3(Zero, Zero, One))
                @@ (2 :> Vec3(One, Zero, Zero))]

\* a plane with normal along z whose local axes are turned in the x-y plane:
\* local x along (3/5, 4/5, 0), local y along (-4/5, 3/5, 0)
SurfaceTilted ==
  [center |-> Vec3(Zero, Zero, Zero),
   rotation |-> (0 :> Vec3(<<3, 5>>, <<-4, 5>>, Zero)) @@ (1 :> Vec3(<<4, 5>>, <<3, 5>>, Zero))
                @@ (2 :> Vec3(Zero, Zero, One))]

\* a free vector at local position (1, 2, height) of the surface
FreeAt(surface, height, direction) ==
  LET pos == VecAdd(surface.center,
                    MatVec(surface.rotation, Vec3(One, <<2, 1>>, height)))
  IN (eFreePos0 :> pos[0]) @@ (eFreePos1 :> pos[1]) @@ (eFreePos2 :> pos[2])
     @@ (eFreeTime :> Zero)
     @@ (eFreeDir0 :> direction[0]) @@ (eFreeDir1 :> direction[1])
     @@ (eFreeDir2 :> direction[2]) @@ (eFreeQOverP :> One)

\* heights over the surface: on it, and off it
Heights == {Zero, One}

\* the bound covariances of the caller: none, and one with variances on the
\* local coordinates, q/p and time
BoundCovariances ==
  {ZeroMat(eBoundSize, eBoundSize),
   Diag(eBoundSize, (0 :> One) @@ (1 :> <<4, 1>>) @@ (2 :> Zero) @@ (3 :> Zero)
                    @@ (4 :> <<1, 4>>) @@ (5 :> One))}

\* the free covariances of the caller: none, and one with unit variance on the
\* three position coordinates (its sigma points leave every surface)
FreeCovariances ==
  {ZeroMat(eFreeSize, eFreeSize),
   Diag(eFreeSize, MkVec(Idx(eFreeSize), LAMBDA i : IF i < 3 THEN One ELSE Zero))}

\* the step state of a freshly started propagation, and one after a step of
\* length two along a straight line with an earlier chained Jacobian left in
\* jacobian
FreshStep(direction) ==
  [jacobian |-> IdentityMat(eBoundSize),
   transportJacobian |-> IdentityMat(eFreeSize),
   derivatives |-> ZeroVec(eFreeSize),
   boundToFreeJacobian |->
     initJacobianToGlobal(SurfaceXY, ZeroMat(eFreeSize, eBoundSize),
                          Vec3(Zero, Zero, Zero), DirStandard)]

AccumulatedStep(direction) ==
  [jacobian |-> Fill(IdentityMat(eBoundSize), (<<0, 1>> :> <<2, 1>>)),
   transportJacobian |->
     Fill(IdentityMat(eFreeSize),
          (<<eFreePos0, eFreeDir0>> :> <<2, 1>>) @@ (<<eFreePos1, eFreeDir1>> :> <<2, 1>>)
          @@ (<<eFreePos2, eFreeDir2>> :> <<2, 1>>)),
   derivatives |-> MkVec(Idx(eFreeSize),
                         LAMBDA i : IF i < 3 THEN direction[i]
                                    ELSE IF i = eFreeTime THEN One ELSE Zero),
   boundToFreeJacobian |->
     initJacobianToGlobal(SurfaceZX, ZeroMat(eFreeSize, eBoundSize),
                          Vec3(Zero, Zero, Zero), DirSteep)]

MaxPath == 1

(***************************************************************************)
(* The state: the caller's step state, the call's inputs, and the last     *)
(* call with what it returned; and the members of a                        *)
(* RootTrajectoryParametersReader with the threads inside read.            *)
(***************************************************************************)
VARIABLES boundMatrix, freeMatrix, jacobian, transportJacobian, derivatives,
          boundToFreeJacobian, parameters, surface, tolerance, pc, call, ret,
          m_inputChain, m_read_mutex, m_branches, readers, eventStore

engineVars == <<boundMatrix, freeMatrix, jacobian, transportJacobian, derivatives,
                boundToFreeJacobian, parameters, surface, tolerance, pc, call, ret>>

readerVars == <<m_inputChain, m_read_mutex, m_branches, readers, eventStore>>

vars == <<boundMatrix, freeMatrix, jacobian, transportJacobian, derivatives,
          boundToFreeJacobian, parameters, surface, tolerance, pc, call, ret,
          m_inputChain, m_read_mutex, m_branches, readers, eventStore>>

\* no thread
NoThread == "none"

\* the branch buffers before the first GetEntry
NoEntry == [event_nr |-> -1, tracks |-> -1, particles |-> -1]

\* no reader exists
NoReader ==
  /\ m_inputChain = <<>>
  /\ m_read_mutex = NoThread
  /\ m_branches = NoEntry
  /\ readers = <<>>
  /\ eventStore = <<>>

StepState ==
  [boundMatrix |-> boundMatrix, freeMatrix |-> freeMatrix, jacobian |-> jacobian,
   transportJacobian |-> transportJacobian, derivatives |-> derivatives,
   boundToFreeJacobian |-> boundToFreeJacobian]

direction == Segment3(parameters, eFreeDir0)

NoCall == [op |-> "none", covTransport |-> FALSE, nonlinearityCorrection |-> FALSE,
           accumulatedPath |-> 0]

Init ==
  /\ tolerance \in Tolerances
  /\ surface \in Surfaces
  /\ \E d \in Directions, h \in Heights :
       /\ Dot(MkVec(Idx(3), LAMBDA i : surface.rotation[i][2]), d) # Zero
       /\ parameters = FreeAt(surface, h, d)
       /\ \E step \in {FreshStep(d), AccumulatedStep(d)} :
            /\ jacobian = step.jacobian
            /\ transportJacobian = step.transportJacobian
            /\ derivatives = step.derivatives
            /\ boundToFreeJacobian = step.boundToFreeJacobian
  /\ boundMatrix \in BoundCovariances
  /\ freeMatrix \in FreeCovariances
  /\ pc = "ready"
  /\ call = NoCall
  /\ ret = [outcome |-> "none"]
  /\ NoReader

\* the references of the caller after a call that left them as st
Written(st) ==
  /\ boundMatrix' = st.boundMatrix
  /\ freeMatrix' = st.freeMatrix
  /\ jacobian' = st.jacobian
  /\ transportJacobian' = st.transportJacobian
  /\ derivatives' = st.derivatives
  /\ boundToFreeJacobian' = st.boundToFreeJacobian

Called(op, covTransport, nonlinearityCorrection, accumulatedPath) ==
  /\ pc' = "done"
  /\ call' = [op |-> op, covTransport |-> covTransport,
              nonlinearityCorrection |-> nonlinearityCorrection,
              accumulatedPath |-> accumulatedPath, entry |-> StepState]
  /\ UNCHANGED <<parameters, surface, tolerance>>
  /\ UNCHANGED readerVars

BoundStateCall ==
  /\ pc = "ready"
  /\ \E covTransport \in BOOLEAN, nonlinearityCorrection \in BOOLEAN,
        accumulatedPath \in 1 .. MaxPath :
       \E r \in {boundState(StepState, parameters, covTransport, accumulatedPath,
                            surface, nonlinearityCorrection)} :
         /\ Called("boundState", covTransport, nonlinearityCorrection, accumulatedPath)
         /\ Written(r.st)
         /\ ret' = [outcome |-> r.outcome, value |-> r.value, trace |-> r.trace]

CurvilinearStateCall ==
  /\ pc = "ready"
  /\ \E covTransport \in BOOLEAN, accumulatedPath \in 1 .. MaxPath :
       \E r \in {curvilinearState(StepState, parameters, covTransport, accumulatedPath,
                                  tolerance)} :
         /\ Called("curvilinearState", covTransport, FALSE, accumulatedPath)
         /\ Written(r.st)
         /\ ret' = [outcome |-> r.outcome, value |-> r.value]

TransportCovarianceToBoundCall ==
  /\ pc = "ready"
  /\ \E t \in {transportCovarianceToBound(StepState, parameters, surface)} :
       /\ Called("transportCovarianceToBound", TRUE, FALSE, 0)
       /\ Written(t.st)
       /\ ret' = [outcome |-> IF t.threw THEN "exception" ELSE "ok", transport |-> t]

TransportCovarianceToCurvilinearCall ==
  /\ pc = "ready"
  /\ \E st \in {transportCovarianceToCurvilinear(StepState, direction, tolerance)} :
       /\ Called("transportCovarianceToCurvilinear", TRUE, FALSE, 0)
       /\ Written(st)
       /\ ret' = [outcome |-> "ok"]

\* reinitializeJacobians(geoContext, ...) applied to the step state
ReinitializeJacobiansCall ==
  /\ pc = "ready"
  /\ \E r \in {reinitializeJacobiansSurface(transportJacobian, derivatives,
                                            boundToFreeJacobian, parameters, surface)} :
       /\ Called("reinitializeJacobians", FALSE, FALSE, 0)
       /\ transportJacobian' = r.freeTransportJacobian
       /\ derivatives' = r.freeToPathDerivatives
       /\ boundToFreeJacobian' = r.boundToFreeJacobian
       /\ UNCHANGED <<boundMatrix, freeMatrix, jacobian>>
       /\ ret' = [outcome |-> IF r.ok THEN "ok" ELSE "error", reinit |-> r]

Next ==
  \/ BoundStateCall
  \/ CurvilinearStateCall
  \/ TransportCovarianceToBoundCall
  \/ TransportCovarianceToCurvilinearCall
  \/ ReinitializeJacobiansCall

Spec == Init /\ [][Next]_vars

\* transportCovarianceToBound onto the tilted plane, where the covariance of the
\* sigma points has entries off the diagonal
InitTilted ==
  /\ tolerance \in Tolerances
  /\ surface = SurfaceTilted
  /\ \E d \in Directions, h \in Heights :
       /\ parameters = FreeAt(surface, h, d)
       /\ \E step \in {FreshStep(d), AccumulatedStep(d)} :
            /\ jacobian = step.jacobian
            /\ transportJacobian = step.transportJacobian
            /\ derivatives = step.derivatives
            /\ boundToFreeJacobian = step.boundToFreeJacobian
  /\ boundMatrix \in BoundCovariances
  /\ freeMatrix \in FreeCovariances
  /\ pc = "ready"
  /\ call = NoCall
  /\ ret = [outcome |-> "none"]
  /\ NoReader

NextTilted == TransportCovarianceToBoundCall

SpecTilted == InitTilted /\ [][NextTilted]_vars

(***************************************************************************)
(* RootTrajectoryParametersReader::read called by several threads at once. *)
(* The input chain is a sequence of entries; an entry holds its event      *)
(* number and its tracks and particles, which the model names by the index *)
(* of the entry.  GetEntry(j) copies entry j into the branch buffers, which *)
(* all calls share.                                                        *)
(***************************************************************************)
\* the entries of the chain, and the event numbers of the entries and of the calls
NumEntries == 2
MaxEvent == 2

\* the threads of the sequencer inside read
Threads == {"t1", "t2"}

\* the chains: every assignment of event numbers to the entries
Chains ==
  {[k \in 0 .. NumEntries - 1 |-> [event_nr |-> f[k], tracks |-> k, particles |-> k]] :
     f \in [0 .. NumEntries - 1 -> 0 .. MaxEvent]}

\* m_events, set by the constructor to m_inputChain->GetEntries()
m_events == Cardinality(DOMAIN m_inputChain)

\* a call of read at its first statement
ReadEntered(eventNumber) ==
  [pc |-> "start", eventNumber |-> eventNumber, j |-> 0, entry |-> -1,
   trackParameterCollection |-> -1, truthParticleCollection |-> -1]

\* the engine is not part of these behaviours
EngineIdle ==
  /\ tolerance = <<9, 10>>
  /\ surface = SurfaceXY
  /\ parameters = FreeAt(SurfaceXY, Zero, DirStandard)
  /\ jacobian = FreshStep(DirStandard).jacobian
  /\ transportJacobian = FreshStep(DirStandard).transportJacobian
  /\ derivatives = FreshStep(DirStandard).derivatives
  /\ boundToFreeJacobian = FreshStep(DirStandard).boundToFreeJacobian
  /\ boundMatrix = ZeroMat(eBoundSize, eBoundSize)
  /\ freeMatrix = ZeroMat(eFreeSize, eFreeSize)
  /\ pc = "idle"
  /\ call = NoCall
  /\ ret = [outcome |-> "none"]

\* the threads call read for different event numbers
InitReader ==
  /\ EngineIdle
  /\ m_inputChain \in Chains
  /\ m_read_mutex = NoThread
  /\ m_branches = NoEntry
  /\ \E eventNumber \in [Threads -> 0 .. MaxEvent] :
       /\ \A t, u \in Threads : t # u => eventNumber[t] # eventNumber[u]
       /\ readers = [t \in Threads |-> ReadEntered(eventNumber[t])]
  /\ eventStore = [t \in Threads |-> [stored |-> FALSE, tracks |-> -1, particles |-> -1]]

\* the constructor of std::lock_guard returns at once although the mutex is held
lockAlwaysAvailable(mutex) == TRUE

\* the constructor of std::lock_guard returns once the mutex is free
lockAvailable(mutex) == mutex = NoThread

\* the thread t moves to the statement at and changes its locals as the record
\* changes says
Moved(t, at, changes) ==
  readers' = [readers EXCEPT ![t] = [f \in DOMAIN readers[t] |->
                IF f = "pc" THEN at
                ELSE IF f \in DOMAIN changes THEN changes[f] ELSE readers[t][f]]]

\* if (m_inputChain && context.eventNumber < m_events), else the warning
ReadCheck(t) ==
  /\ readers[t].pc = "start"
  /\ Moved(t, IF readers[t].eventNumber < m_events THEN "lock" ELSE "warned", <<>>)
  /\ UNCHANGED <<m_inputChain, m_read_mutex, m_branches, eventStore>>
  /\ UNCHANGED engineVars

\* std::lock_guard<std::mutex> lock(m_read_mutex)
ReadLock(t) ==
  /\ readers[t].pc = "lock"
  /\ lockAvailable(m_read_mutex)
  /\ m_read_mutex' = t
  /\ Moved(t, "getEntry", [j |-> 0])
  /\ UNCHANGED <<m_inputChain, m_branches, eventStore>>
  /\ UNCHANGED engineVars

\* getEntry: the loop test and m_inputChain->GetEntry(j); past the last entry
\* the lambda returns context.eventNumber
ReadGetEntry(t) ==
  /\ readers[t].pc = "getEntry"
  /\ IF readers[t].j < Cardinality(DOMAIN m_inputChain)
     THEN /\ m_branches' = m_inputChain[readers[t].j]
          /\ Moved(t, "compare", <<>>)
     ELSE /\ Moved(t, "load", [entry |-> readers[t].eventNumber])
          /\ UNCHANGED m_branches
  /\ UNCHANGED <<m_inputChain, m_read_mutex, eventStore>>
  /\ UNCHANGED engineVars

\* getEntry: if (m_eventNr == context.eventNumber) return j
ReadCompare(t) ==
  /\ readers[t].pc = "compare"
  /\ IF m_branches.event_nr = readers[t].eventNumber
     THEN Moved(t, "load", [entry |-> readers[t].j])
     ELSE Moved(t, "getEntry", [j |-> readers[t].j + 1])
  /\ UNCHANGED <<m_inputChain, m_read_mutex, m_branches, eventStore>>
  /\ UNCHANGED engineVars

\* m_inputChain->GetEntry(entry)
ReadLoad(t) ==
  /\ readers[t].pc = "load"
  /\ m_branches' = m_inputChain[readers[t].entry]
  /\ Moved(t, "tracks", <<>>)
  /\ UNCHANGED <<m_inputChain, m_read_mutex, eventStore>>
  /\ UNCHANGED engineVars

\* the loop over the fitted parameters in the buffers
ReadTracks(t) ==
  /\ readers[t].pc = "tracks"
  /\ Moved(t, "particles", [trackParameterCollection |-> m_branches.tracks])
  /\ UNCHANGED <<m_inputChain, m_read_mutex, m_branches, eventStore>>
  /\ UNCHANGED engineVars

\* the loop over the truth particles in the buffers
ReadParticles(t) ==
  /\ readers[t].pc = "particles"
  /\ Moved(t, "add", [truthParticleCollection |-> m_branches.particles])
  /\ UNCHANGED <<m_inputChain, m_read_mutex, m_branches, eventStore>>
  /\ UNCHANGED engineVars

\* context.eventStore.add of the two collections; the lock_guard is destroyed at
\* the end of the block
ReadAdd(t) ==
  /\ readers[t].pc = "add"
  /\ eventStore' = [eventStore EXCEPT ![t] =
                      [stored |-> TRUE,
                       tracks |-> readers[t].trackParameterCollection,
                       particles |-> readers[t].truthParticleCollection]]
  /\ m_read_mutex' = IF m_read_mutex = t THEN NoThread ELSE m_read_mutex
  /\ Moved(t, "done", <<>>)
  /\ UNCHANGED <<m_inputChain, m_branches>>
  /\ UNCHANGED engineVars

NextReader ==
  \E t \in Threads :
    \/ ReadCheck(t)
    \/ ReadLock(t)
    \/ ReadGetEntry(t)
    \/ ReadCompare(t)
    \/ ReadLoad(t)
    \/ ReadTracks(t)
    \/ ReadParticles(t)
    \/ ReadAdd(t)

SpecReader == InitReader /\ [][NextReader]_vars


(***************************************************************************)
(* The properties.  Each is a predicate of the state after one call: call  *)
(* holds the operation, its flags and the step state at entry, ret what    *)
(* the operation handed back, and the step variables what it wrote.        *)
(***************************************************************************)
Done(op) == pc = "done" /\ call.op = op

ProjectionOk == transformFreeToBoundOk(parameters, surface)

ZeroBoundMatrix == ZeroMat(eBoundSize, eBoundSize)

\* C1: every boundState call whose free-to-bound conversion on the target surface
\* fails returns an explicit failure, and neither throws nor reads the value of a
\* failed result, whether or not the covariance transport was requested.
C1_ConversionFailureReturned ==
  (Done("boundState") /\ ~ProjectionOk)
    => /\ ret.outcome = "error"
       /\ ~ret.trace.transport.readFailedResult

\* C2: boundState and curvilinearState called without covariance transport return
\* parameters whose covariance is absent, whatever bound covariance the caller
\* holds.
C2_NoTransportNoCovariance ==
  (/\ pc = "done"
   /\ call.op \in {"boundState", "curvilinearState"}
   /\ ~call.covTransport
   /\ ret.outcome = "ok")
    => ~ret.value.boundCov.has_value

\* C3: when the covariance transport is requested and the transported covariance
\* is all-zero, the call returns a covariance that is present and all-zero.
C3_ZeroCovariancePresent ==
  (/\ pc = "done"
   /\ call.op \in {"boundState", "curvilinearState"}
   /\ call.covTransport
   /\ call.op = "boundState" => ProjectionOk
   /\ boundMatrix = ZeroBoundMatrix)
    => /\ ret.outcome = "ok"
       /\ ret.value.boundCov.has_value
       /\ ret.value.boundCov.value = ZeroBoundMatrix

\* C4: whenever the free-to-bound conversion succeeds boundState returns success,
\* also when the covariance is absent, and no step reads the absent covariance.
C4_SuccessWithoutCovariance ==
  (Done("boundState") /\ ProjectionOk)
    => /\ ret.outcome = "ok"
       /\ ~ret.trace.readEmptyOptional

\* C5: every successful boundState result carries the first-order bound vector and
\* covariance and the corrected vector and covariance; when the corrector has no
\* value the call still succeeds, with the first-order result and an all-zero
\* corrected vector and covariance.
C5_BothOutputs ==
  (Done("boundState") /\ ret.outcome = "ok")
    => LET correctedRes == CorrectedFreeToBoundTransformer(parameters, freeMatrix,
                                                           derivatives, surface)
       IN /\ ret.trace.correctorRan
          /\ ret.value.bv = transformFreeToBoundParameters(parameters, surface)
          /\ ret.value.boundCov.value = boundMatrix
          /\ correctedRes.has_value
               => /\ ret.value.correctedBp = correctedRes.first
                  /\ ret.value.correctedBv = correctedRes.second
          /\ ~correctedRes.has_value
               => /\ ret.value.correctedBp = ZeroBoundVector
                  /\ ret.value.correctedBv = ZeroBoundMatrix

\* a successful boundState call whose corrector had no value
C5_Witness ==
  /\ Done("boundState")
  /\ ret.outcome = "ok"
  /\ ret.trace.correctorRan
  /\ ~ret.trace.correctorHasValue

\* C6: the corrector is invoked only when nonlinearityCorrection is true; when it
\* is false the corrector does not run and the corrected outputs are zero.
C6_CorrectionOnlyOnRequest ==
  (Done("boundState") /\ ~call.nonlinearityCorrection)
    => /\ ~ret.trace.correctorRan
       /\ ~ret.trace.transport.corrected.has_value
       /\ ret.outcome = "ok"
            => /\ ret.value.correctedBp = ZeroBoundVector
               /\ ret.value.correctedBv = ZeroBoundMatrix

\* the calls that run transportCovarianceToBound
TransportToBoundDone ==
  /\ pc = "done"
  /\ \/ call.op = "transportCovarianceToBound"
     \/ call.op = "boundState" /\ call.covTransport

TransportOf == IF call.op = "boundState" THEN ret.trace.transport ELSE ret.transport

C8_StepStateReset ==
  TransportToBoundDone
    => /\ transportJacobian = IdentityMat(eFreeSize)
       /\ derivatives = ZeroVec(eFreeSize)
       /\ boundToFreeJacobian = boundToFreeJacobianAt(surface, parameters)

C10_FiniteEverywhere ==
  (/\ pc = "done"
   /\ \/ call.op = "transportCovarianceToCurvilinear"
      \/ call.op = "curvilinearState" /\ call.covTransport
   /\ ~NumEq(Abs(direction[2]), tolerance))
    => MatAllFinite(freeToCurvilinearJacobian(direction, tolerance))

\* the calls that evaluate the surface Jacobians at the current free parameters
SurfaceJacobiansDone ==
  /\ pc = "done"
  /\ \/ TransportToBoundDone /\ ~TransportOf.threw
     \/ call.op = "reinitializeJacobians" /\ ret.outcome = "ok"

\* C11: initJacobianToGlobal and initJacobianToLocal guard sin(theta) = 0: for no
\* direction with x = y = 0 is 1/sin(theta) computed and a non-finite value
\* written into the angular block of the Jacobian.
C11_PoleGuarded ==
  SurfaceJacobiansDone
    => /\ MatAllFinite(boundToFreeJacobian)
       /\ MatAllFinite(initJacobianToLocal(surface, ZeroMat(eBoundSize, eFreeSize),
                                           Segment3(parameters, eFreePos0), direction))

\* C12: boundState sets the 6x6 Jacobian to the identity on every call: without
\* covariance transport the Jacobian it returns is the identity, whatever the
\* caller's Jacobian was before the call.
C12_JacobianIdentityWithoutTransport ==
  (Done("boundState") /\ ~call.covTransport /\ ret.outcome = "ok")
    => ret.value.jacobian = IdentityMat(eBoundSize)

\* the bound covariance transportCovarianceToBound leaves when the call is entered
\* with the free covariance freeCovariance and everything else as it was
BoundCovarianceFor(freeCovariance) ==
  transportCovarianceToBound([call.entry EXCEPT !.freeMatrix = freeCovariance],
                             parameters, surface).st.boundMatrix

\* C13: transportCovarianceToBound conjugates the incoming free covariance by M,
\* corrects that propagated covariance and conjugates it by F, so the bound
\* covariance it leaves depends on the incoming free covariance: another incoming
\* free covariance of the caller gives another bound covariance.
C13_BoundCovarianceFromFreeCovariance ==
  (TransportToBoundDone /\ ~TransportOf.threw)
    => \E freeCovariance \in FreeCovariances :
         BoundCovarianceFor(freeCovariance) # boundMatrix

\* F * ((I + freeDerivatives x pathDerivative) * freeTransportJacobian *
\* boundToFreeJacobian), of the step state the call was entered with
ChainedJacobianAtEntry ==
  MatMul(freeToBoundJacobian(surface, parameters),
         MatMul(MatMul(MatAdd(IdentityMat(eFreeSize),
                              Outer(call.entry.derivatives,
                                    freeToPathDerivative(surface,
                                                         Segment3(parameters, eFreePos0),
                                                         direction))),
                       call.entry.transportJacobian),
                call.entry.boundToFreeJacobian))

\* C14: the full local Jacobian that transportCovarianceToBound writes, and that
\* boundState with the covariance transport returns, is
\* F * (I + freeDerivatives x pathDerivative) * freeTransportJacobian *
\* boundToFreeJacobian of the step state at entry; the reset of the step state
\* that follows does not change it.
C14_ChainedJacobianOfEntryState ==
  TransportToBoundDone
    => /\ jacobian = ChainedJacobianAtEntry
       /\ (call.op = "boundState" /\ ret.outcome = "ok")
            => ret.value.jacobian = ChainedJacobianAtEntry

\* a returning boundState whose transport ran on an accumulated step state: the
\* path-derivative term counts, and the reset changed the step state afterwards
C14_Witness ==
  /\ TransportToBoundDone
  /\ call.op = "boundState"
  /\ ret.outcome = "ok"
  /\ call.entry.derivatives # ZeroVec(eFreeSize)
  /\ call.entry.transportJacobian # IdentityMat(eFreeSize)
  /\ transportJacobian = IdentityMat(eFreeSize)
  /\ derivatives = ZeroVec(eFreeSize)
  /\ ret.value.jacobian # IdentityMat(eBoundSize)

TransportToCurvilinearDone ==
  /\ pc = "done"
  /\ \/ call.op = "transportCovarianceToCurvilinear"
     \/ call.op = "curvilinearState" /\ call.covTransport

\* the bound-to-free Jacobian of the curvilinear frame of the direction dir, with
\* cos(phi) = x / sin(theta) and sin(phi) = y / sin(theta); every entry the formula
\* does not name is zero
CurvilinearBoundToFree(dir) ==
  LET sinTheta == Sqrt(Add(Mul(dir[0], dir[0]), Mul(dir[1], dir[1])))
      cosTheta == dir[2]
      cosPhi == Mul(dir[0], Inv(sinTheta))
      sinPhi == Mul(dir[1], Inv(sinTheta))
  IN MkMat(Idx(eFreeSize), Idx(eBoundSize), LAMBDA i, j :
       CASE i = eFreePos0 /\ j = eBoundLoc0 -> Neg(sinPhi)
         [] i = eFreePos0 /\ j = eBoundLoc1 -> Mul(Neg(cosPhi), cosTheta)
         [] i = eFreePos1 /\ j = eBoundLoc0 -> cosPhi
         [] i = eFreePos1 /\ j = eBoundLoc1 -> Mul(Neg(sinPhi), cosTheta)
         [] i = eFreePos2 /\ j = eBoundLoc1 -> sinTheta
         [] i = eFreeTime /\ j = eBoundTime -> One
         [] i = eFreeDir0 /\ j = eBoundPhi -> Mul(Neg(sinTheta), sinPhi)
         [] i = eFreeDir0 /\ j = eBoundTheta -> Mul(cosTheta, cosPhi)
         [] i = eFreeDir1 /\ j = eBoundPhi -> Mul(sinTheta, cosPhi)
         [] i = eFreeDir1 /\ j = eBoundTheta -> Mul(cosTheta, sinPhi)
         [] i = eFreeDir2 /\ j = eBoundTheta -> Neg(sinTheta)
         [] i = eFreeQOverP /\ j = eBoundQOverP -> One
         [] OTHER -> Zero)

\* C15: after every transportCovarianceToCurvilinear, and so after every
\* curvilinearState with the covariance transport, the free transport Jacobian is
\* the identity, the path-derivative vector is zero, and every entry of the
\* bound-to-free Jacobian is the value of the curvilinear formula for the current
\* direction alone: no entry keeps the value it had before the call, and the
\* surface plays no part.
C15_CurvilinearStepStateReset ==
  TransportToCurvilinearDone
    => /\ transportJacobian = IdentityMat(eFreeSize)
       /\ derivatives = ZeroVec(eFreeSize)
       /\ boundToFreeJacobian = CurvilinearBoundToFree(direction)

\* a curvilinear transport on an accumulated step state whose bound-to-free
\* Jacobian had a non-zero entry where the curvilinear formula has none
C15_Witness ==
  /\ TransportToCurvilinearDone
  /\ call.entry.transportJacobian # IdentityMat(eFreeSize)
  /\ call.entry.derivatives # ZeroVec(eFreeSize)
  /\ \E i \in Idx(eFreeSize), j \in Idx(eBoundSize) :
       /\ call.entry.boundToFreeJacobian[i][j] # Zero
       /\ boundToFreeJacobian[i][j] = Zero
  /\ MatAllFinite(boundToFreeJacobian)

\* the position block of the first two rows as the standard branch assigns it
StandardPattern(jacToCurv, dir) ==
  LET sinTheta == Sqrt(Add(Mul(dir[0], dir[0]), Mul(dir[1], dir[1])))
      cosPhi == Mul(dir[0], Inv(sinTheta))
      sinPhi == Mul(dir[1], Inv(sinTheta))
  IN /\ jacToCurv[0][0] = Neg(sinPhi)
     /\ jacToCurv[0][1] = cosPhi
     /\ jacToCurv[0][2] = Zero
     /\ jacToCurv[1][0] = Mul(Neg(cosPhi), dir[2])
     /\ jacToCurv[1][1] = Mul(Neg(sinPhi), dir[2])
     /\ jacToCurv[1][2] = sinTheta

\* the same block as the grazing branch assigns it
GrazingPattern(jacToCurv, dir) ==
  LET c == Sqrt(Add(Mul(dir[1], dir[1]), Mul(dir[2], dir[2])))
  IN /\ jacToCurv[0][0] = Zero
     /\ jacToCurv[0][1] = Mul(Neg(dir[2]), Inv(c))
     /\ jacToCurv[0][2] = Mul(dir[1], Inv(c))
     /\ jacToCurv[1][0] = c
     /\ jacToCurv[1][1] = Mul(Mul(Neg(dir[0]), dir[1]), Inv(c))
     /\ jacToCurv[1][2] = Mul(Mul(Neg(dir[0]), dir[2]), Inv(c))

\* C16: freeToCurvilinearJacobian takes the standard branch exactly when
\* |cos(theta)| < tau and the grazing branch exactly when |cos(theta)| >= tau; the
\* standard branch leaves entry (0,2) zero and assigns (0,0), (0,1), (1,0), (1,1),
\* (1,2), the grazing branch leaves (0,0) zero and assigns (0,1), (0,2), (1,0),
\* (1,1), (1,2); the direction (0,0,1) takes the grazing branch.
C16_BranchByTolerance ==
  TransportToCurvilinearDone
    => /\ Less(Abs(direction[2]), tolerance)
            => StandardPattern(freeToCurvilinearJacobian(direction, tolerance), direction)
       /\ ~Less(Abs(direction[2]), tolerance)
            => GrazingPattern(freeToCurvilinearJacobian(direction, tolerance), direction)
       /\ direction = DirPolePlus
            => /\ ~Less(Abs(direction[2]), tolerance)
               /\ freeToCurvilinearJacobian(direction, tolerance)[1][0] = One

\* a curvilinear transport for a direction that is grazing under the tolerance of
\* the run, with a non-zero entry (0,2), and standard under the other tolerance
C16_Witness ==
  /\ TransportToCurvilinearDone
  /\ ~Less(Abs(direction[2]), tolerance)
  /\ freeToCurvilinearJacobian(direction, tolerance)[0][2] # Zero
  /\ \E tau \in Tolerances :
       /\ Less(Abs(direction[2]), tau)
       /\ freeToCurvilinearJacobian(direction, tau)[0][0] # Zero

\* the values of kappa the weights are computed for
MaxKappa == 8

RECURSIVE SumOf(_, _)
\* the first n numbers of the sequence ws, added in order
SumOf(ws, n) == IF n = 0 THEN Zero ELSE Add(SumOf(ws, n - 1), ws[n])

\* the weights of the 2n+1 sigma points for kappa = k
WeightsFor(k) ==
  <<meanWeight(k)>> \o [i \in 1 .. 2 * eBoundSize |-> shiftedWeight(k)]

\* the sigma points the corrector of the finished transport sampled
SampledAtEntry ==
  sampledBoundParamsOf(transformFreeToBoundParameters(parameters, surface),
                       call.entry.boundMatrix)

\* C17: the corrector builds exactly 2n+1 sigma points, n = 6, with the weight
\* (kappa - n) / kappa for the mean and 1 / (2 kappa) for each of the 2n shifted
\* points; for every kappa > 0 these weights sum to exactly 1; the negative central
\* weight of kappa = 4 < n is accepted and the corrector still returns a value.
C17_WeightsSumToOne ==
  /\ \A k \in 1 .. MaxKappa : SumOf(WeightsFor(k), 2 * eBoundSize + 1) = One
  /\ (TransportToBoundDone /\ ~TransportOf.threw)
       => /\ Len(SampledAtEntry) = 2 * eBoundSize + 1
          /\ [i \in 1 .. Len(SampledAtEntry) |-> SampledAtEntry[i][2]] = WeightsFor(kappa)
          /\ SumOf([i \in 1 .. Len(SampledAtEntry) |-> SampledAtEntry[i][2]],
                   Len(SampledAtEntry)) = One
          /\ Less(SampledAtEntry[1][2], Zero)
          /\ TransportOf.corrected.has_value
          /\ TransportOf.corrected.nSampled = Len(SampledAtEntry)

\* a transport whose corrector sampled a non-zero covariance with the negative
\* central weight and returned a value
C17_Witness ==
  /\ TransportToBoundDone
  /\ ~TransportOf.threw
  /\ call.entry.boundMatrix # ZeroBoundMatrix
  /\ SampledAtEntry[1][2] = <<-1, 2>>
  /\ SampledAtEntry[2][1] # SampledAtEntry[1][1]
  /\ TransportOf.corrected.has_value

\* the path derivative the finished transport took at the current free parameters
FreeToPathNow ==
  freeToPathDerivative(surface, Segment3(parameters, eFreePos0), direction)

\* n . d, for the third column n of the rotation of the surface and the direction d
NormalDotDirection ==
  Add(Add(Mul(surface.rotation[0][2], direction[0]),
          Mul(surface.rotation[1][2], direction[1])),
      Mul(surface.rotation[2][2], direction[2]))

\* C18: Surface::freeToPathDerivative returns a row vector whose three position
\* slots hold -1/(n.d) * n, n the third column of the reference frame and d the
\* direction, and whose time, direction and q/p slots are zero; with n.d # 0
\* nothing is divided by zero, every entry is finite, and the vector applied to
\* the direction gives -1.
C18_PathDerivativeAlongNormal ==
  (TransportToBoundDone /\ NormalDotDirection # Zero)
    => /\ \A j \in 0 .. 2 :
            FreeToPathNow[j] = Mul(Neg(Inv(NormalDotDirection)), surface.rotation[j][2])
       /\ \A j \in 3 .. eFreeSize - 1 : FreeToPathNow[j] = Zero
       /\ VecAllFinite(FreeToPathNow)
       /\ Dot(Segment3(FreeToPathNow, eFreePos0), direction) = Neg(One)

\* a transport onto the surface with normal along x for a direction oblique to it,
\* on a step state whose path derivatives are not zero
C18_Witness ==
  /\ TransportToBoundDone
  /\ surface = SurfaceYZ
  /\ NormalDotDirection = <<12, 25>>
  /\ FreeToPathNow[0] = <<-25, 12>>
  /\ call.entry.derivatives # ZeroVec(eFreeSize)

\* the bound parameters the finished transport handed to its corrector
NominalBound == transformFreeToBoundParameters(parameters, surface)

\* C19: when the covariance handed to the corrector is the zero matrix, all 2n+1
\* sigma points coincide with the mean, the mean the corrector returns is the
\* transform of the nominal parameters, and the covariance it returns is the zero
\* matrix.
C19_ZeroCovarianceDegenerate ==
  (TransportToBoundDone /\ ~TransportOf.threw /\ call.entry.boundMatrix = ZeroBoundMatrix)
    => /\ \A i \in 1 .. Len(SampledAtEntry) : SampledAtEntry[i][1] = NominalBound
       /\ TransportOf.corrected.has_value
       /\ TransportOf.corrected.first = transformBoundToFreeParameters(surface, NominalBound)
       /\ TransportOf.corrected.second = ZeroMat(eFreeSize, eFreeSize)

\* a transport with no bound covariance whose corrector returned a mean off the
\* origin
C19_Witness ==
  /\ TransportToBoundDone
  /\ ~TransportOf.threw
  /\ call.entry.boundMatrix = ZeroBoundMatrix
  /\ TransportOf.corrected.has_value
  /\ TransportOf.corrected.nTransformed = 2 * eBoundSize + 1
  /\ TransportOf.corrected.first[eFreePos0] # Zero
  /\ TransportOf.corrected.first[eFreeDir2] = direction[2]

\* C20: boundState and curvilinearState called with covTransport = false leave the
\* caller's step state unchanged: the bound covariance, the free covariance, the
\* 6x6 Jacobian, the free transport Jacobian, the path-derivative vector and the
\* bound-to-free Jacobian have after the call the values they had before it,
\* however the call ends.
C20_NoTransportKeepsStepState ==
  (pc = "done" /\ call.op \in {"boundState", "curvilinearState"} /\ ~call.covTransport)
    => /\ boundMatrix = call.entry.boundMatrix
       /\ freeMatrix = call.entry.freeMatrix
       /\ jacobian = call.entry.jacobian
       /\ transportJacobian = call.entry.transportJacobian
       /\ derivatives = call.entry.derivatives
       /\ boundToFreeJacobian = call.entry.boundToFreeJacobian

\* a returning boundState without the covariance transport on an accumulated step
\* state with both covariances set
C20_Witness ==
  /\ Done("boundState")
  /\ ~call.covTransport
  /\ ret.outcome = "ok"
  /\ jacobian # IdentityMat(eBoundSize)
  /\ transportJacobian # IdentityMat(eFreeSize)
  /\ derivatives # ZeroVec(eFreeSize)
  /\ boundMatrix # ZeroBoundMatrix
  /\ freeMatrix # ZeroMat(eFreeSize, eFreeSize)

\* C21: for every unit direction with sin(theta) # 0, in the standard and in the
\* grazing branch, the free-to-bound Jacobian of freeToCurvilinearJacobian and the
\* bound-to-free Jacobian the curvilinear reinitializeJacobians writes for the same
\* direction describe the same local frame: their product is the 6x6 identity.
C21_CurvilinearFramesAgree ==
  (TransportToCurvilinearDone /\ (direction[0] # Zero \/ direction[1] # Zero))
    => MatMul(freeToCurvilinearJacobian(direction, tolerance), boundToFreeJacobian)
         = IdentityMat(eBoundSize)

\* C22: whenever the corrector returns a result, the covariance it returns is a
\* symmetric matrix, a weighted sum of outer products of the deviations of the
\* samples from the weighted mean.
C22_CorrectedCovarianceSymmetric ==
  (TransportToBoundDone /\ ~TransportOf.threw /\ TransportOf.corrected.has_value)
    => TransportOf.corrected.second = Transpose(TransportOf.corrected.second)

\* a corrector result on the tilted plane whose covariance has a non-zero entry
\* off the diagonal
C22_Witness ==
  /\ TransportToBoundDone
  /\ ~TransportOf.threw
  /\ TransportOf.corrected.has_value
  /\ surface = SurfaceTilted
  /\ TransportOf.corrected.second[eFreePos0][eFreePos1] # Zero
  /\ TransportOf.corrected.second[eFreePos1][eFreePos0]
       = TransportOf.corrected.second[eFreePos0][eFreePos1]

\* the thread t is between its first access to the chain and its last read of the
\* branch buffers
InsideRead(t) ==
  readers[t].pc \in {"getEntry", "compare", "load", "tracks", "particles"}

\* C23: when several threads call read for different event numbers, the search
\* for the entry, the loading of the entry into the shared branch buffers and the
\* copying of the buffers happen inside one critical section per call: at most one
\* call is between its first chain access and its last buffer read, it holds the
\* mutex, and each call stores the tracks and particles of the entry it loaded,
\* which is the first entry with its event number if there is one.
C23_ReadInOneCriticalSection ==
  /\ \A t, u \in DOMAIN readers : (InsideRead(t) /\ InsideRead(u)) => t = u
  /\ \A t \in DOMAIN readers :
       (InsideRead(t) \/ readers[t].pc = "add") => m_read_mutex = t
  /\ \A t \in DOMAIN readers :
       readers[t].pc = "done"
         => /\ eventStore[t].stored
            /\ eventStore[t].tracks = m_inputChain[readers[t].entry].tracks
            /\ eventStore[t].particles = m_inputChain[readers[t].entry].particles
            /\ \A k \in DOMAIN m_inputChain :
                 m_inputChain[k].event_nr = readers[t].eventNumber
                   => /\ readers[t].entry <= k
                      /\ m_inputChain[readers[t].entry].event_nr = readers[t].eventNumber

\* two calls that meet at the mutex: one has loaded the entry of its event and is
\* about to copy the particles, the other waits for the mutex to read another
\* event that the chain holds too
C23_Witness ==
  \E t, u \in DOMAIN readers :
    /\ t # u
    /\ readers[t].pc = "particles"
    /\ readers[u].pc = "lock"
    /\ m_read_mutex = t
    /\ m_branches = m_inputChain[readers[t].entry]
    /\ m_branches.event_nr = readers[t].eventNumber
    /\ readers[t].entry > 0
    /\ \E k \in DOMAIN m_inputChain : m_inputChain[k].event_nr = readers[u].eventNumber
====
